---- MODULE Spec2Model ----
(***************************************************************************)
(* A model of tracker.py: the 12-week training plan printer.               *)
(*                                                                         *)
(* Numbers.  Loads and treadmill paces are the only quantities of PROGRAM  *)
(* that take fractional values (2.5 lbs, 0.5 mph); they are held in half   *)
(* units (Unit halves make one pound / one mph).  Counts, minutes and      *)
(* seconds are plain integers.  round_load takes the rational num/den it   *)
(* rounds, so that a product with DELOAD_FACTOR (9/10) or with 0.8 (8/10)  *)
(* is rounded from its exact value.  The binary doubles the program uses   *)
(* give the same integers: every such product is a multiple of 1/20, so it *)
(* is either exactly representable (and the double product, whose relative *)
(* error is below 2^-54, rounds to it: this covers every tie k + 1/2) or   *)
(* at least 1/20 away from a tie.  Python's round is round-half-to-even.   *)
(***************************************************************************)
EXTENDS Integers, Sequences, FiniteSets, TLC

VARIABLES
  pc,            \* position: "start", "main", "loop", "exited", "engine"
  argv,          \* sys.argv
  DELoad_WEEKS,  \* the module global bound by the __main__ block
  current_date,  \* main's local: the parsed date [y, m, d]
  day_offset,    \* main's local
  week,          \* main's local
  day_of_week,   \* main's local
  exercises,     \* main's local: the Day Plan's exercise list
  idx,           \* position of the for loop in exercises
  out,           \* standard output, one record per printed line
  exit_code,     \* the process's exit status, NotExited while running
  loads          \* function-level runs only: round_load(calculate_load(..)) per week

vars == <<pc, argv, DELoad_WEEKS, current_date, day_offset, week, day_of_week,
          exercises, idx, out, exit_code, loads>>

\* ----- CONFIGURATION -----
\* The deload weeks counted from 0.
DELOAD_WEEKS_zero_based == {5, 9}

DELOAD_WEEKS == {6, 10}
DELOAD_FACTOR_NUM == 9
DELOAD_FACTOR_DEN == 10
START_DATE == [y |-> 2024, m |-> 12, d |-> 29]

\* Half units per pound / per mph.
Unit == 2
\* The literal 0.8 of get_minutes_for_week, as 8/10.
MINUTES_FACTOR_NUM == 8
MINUTES_FACTOR_DEN == 10
\* The floor of the pool rest, max(5, rest_sec).
REST_FLOOR == 5
\* The last valid day offset.
LAST_OFFSET == 83

NotExited == "running"
Unbound == "unbound"

\* ----- numeric helpers -----
Max(a, b) == IF a >= b THEN a ELSE b

\* int(round(num/den)) for den > 0: Python 3's round, ties to the even integer.
round_load(num, den) ==
  LET q == num \div den
      r == num % den
  IN  IF 2 * r < den THEN q
      ELSE IF 2 * r > den THEN q + 1
      ELSE IF q % 2 = 0 THEN q ELSE q + 1

\* The weekly increment subtracted.
calculate_load_decreasing(wk, base_load, weekly_increment) ==
  IF wk < 1 THEN base_load ELSE base_load - (wk - 1) * weekly_increment

\* In half units; week < 1 is the "safety check".
calculate_load(wk, base_load, weekly_increment) ==
  IF wk < 1 THEN base_load ELSE base_load + (wk - 1) * weekly_increment

\* round_load(load * DELOAD_FACTOR), load in half units.
deload_adjustment(load) ==
  round_load(load * DELOAD_FACTOR_NUM, Unit * DELOAD_FACTOR_DEN)

\* The deload mapping without its 6 -> 4 case.
get_sets_for_week_no_six(wk, base_sets) ==
  IF wk \in DELOAD_WEEKS
  THEN IF base_sets = 4 THEN 3
       ELSE IF base_sets = 5 THEN 4
       ELSE base_sets
  ELSE base_sets

get_sets_for_week(wk, base_sets) ==
  IF wk \in DELOAD_WEEKS
  THEN IF base_sets = 4 THEN 3
       ELSE IF base_sets = 5 THEN 4
       ELSE IF base_sets = 6 THEN 4
       ELSE base_sets
  ELSE base_sets

\* base_intervals > 5 for base_intervals >= 5.
get_intervals_for_week_above_five(wk, base_intervals) ==
  IF wk \in DELOAD_WEEKS /\ base_intervals > 5 THEN 4 ELSE base_intervals

get_intervals_for_week(wk, base_intervals) ==
  IF wk \in DELOAD_WEEKS /\ base_intervals >= 5 THEN 4 ELSE base_intervals

\* The pace with the commented-out `normal_mph *= DELOAD_FACTOR` in force.
get_mph_for_week_scaled(wk, base_mph, increment) ==
  LET normal_mph == base_mph + (wk - 1) * increment
  IN  IF wk \in DELOAD_WEEKS
      THEN round_load(normal_mph * DELOAD_FACTOR_NUM, Unit * DELOAD_FACTOR_DEN)
      ELSE round_load(normal_mph, Unit)

\* base_mph and increment in half units; the deload branch is a bare pass.
get_mph_for_week(wk, base_mph, increment) ==
  LET normal_mph == base_mph + (wk - 1) * increment
  IN  round_load(normal_mph, Unit)

get_minutes_for_week(wk, base_minutes, increment) ==
  LET normal_minutes == base_minutes + (wk - 1) * increment
      scaled == IF wk \in DELOAD_WEEKS
                THEN round_load(normal_minutes * MINUTES_FACTOR_NUM, MINUTES_FACTOR_DEN)
                ELSE normal_minutes
  IN  Max(0, scaled)

\* The rest kept from going negative only: max(0, rest_sec).
pool_rest_sec_floor_zero(wk, base_rest_sec, rest_decrement) ==
  Max(0, base_rest_sec - rest_decrement * ((wk - 1) \div 2))

\* The pool branch of main: rest_sec before and after max(5, rest_sec).
pool_rest_sec(wk, base_rest_sec, rest_decrement) ==
  Max(REST_FLOOR, base_rest_sec - rest_decrement * ((wk - 1) \div 2))

\* The timed-hold branch of main: total_sec, then int(total_sec).
hold_total_sec(wk, base_sec, inc_sec) ==
  LET total_sec == base_sec + inc_sec * (wk - 1)
  IN  IF wk \in DELoad_WEEKS
      THEN round_load(total_sec * DELOAD_FACTOR_NUM, DELOAD_FACTOR_DEN)
      ELSE total_sec

\* ----- text helpers -----
Char(s, i) == SubSeq(s, i, i)

\* Python's `pat in s` on strings.
Contains(pat, s) ==
  \E i \in 1..(Len(s) - Len(pat) + 1) : SubSeq(s, i, i + Len(pat) - 1) = pat

Digits == "0123456789"
IsDigit(c) == \E i \in 1..10 : Char(Digits, i) = c
DigitVal(c) == CHOOSE i \in 0..9 : Char(Digits, i + 1) = c
AllDigits(s) == \A i \in 1..Len(s) : IsDigit(Char(s, i))

RECURSIVE ToInt(_)
ToInt(s) ==
  IF Len(s) = 0 THEN 0
  ELSE 10 * ToInt(SubSeq(s, 1, Len(s) - 1)) + DigitVal(Char(s, Len(s)))

\* ----- calendar (datetime.date) -----
IsLeap(y) == y % 4 = 0 /\ (y % 100 # 0 \/ y % 400 = 0)

DaysInMonth(y, m) ==
  IF m = 2 THEN (IF IsLeap(y) THEN 29 ELSE 28)
  ELSE IF m \in {4, 6, 9, 11} THEN 30 ELSE 31

RECURSIVE DaysBeforeMonth(_, _)
DaysBeforeMonth(y, m) ==
  IF m = 1 THEN 0 ELSE DaysBeforeMonth(y, m - 1) + DaysInMonth(y, m - 1)

\* date.toordinal(): 0001-01-01 is day 1.
ToOrdinal(dt) ==
  LET y1 == dt.y - 1
  IN  y1 * 365 + (y1 \div 4) - (y1 \div 100) + (y1 \div 400)
      + DaysBeforeMonth(dt.y, dt.m) + dt.d

\* (a - b).days
DateDiffDays(a, b) == ToOrdinal(a) - ToOrdinal(b)

\* datetime.strptime(s, "%Y-%m-%d").date().  %Y is four digits, %m is
\* 1[0-2]|0[1-9]|[1-9], %d is 3[01]|[12]\d|0[1-9]|[1-9], the "-" are literal and
\* nothing may follow the day; then the date must exist.  ok = FALSE is ValueError.
strptime(s) ==
  LET n    == Len(s)
      p    == IF n >= 7 /\ Char(s, 7) = "-" THEN 7 ELSE 8
      shape == /\ n >= 8
               /\ AllDigits(SubSeq(s, 1, 4))
               /\ Char(s, 5) = "-"
               /\ p < n
               /\ Char(s, p) = "-"
               /\ n - p \in {1, 2}
      mt   == SubSeq(s, 6, p - 1)
      dtx  == SubSeq(s, p + 1, n)
      good == /\ shape
              /\ AllDigits(mt) /\ AllDigits(dtx)
              /\ ToInt(SubSeq(s, 1, 4)) >= 1
              /\ ToInt(mt) \in 1..12
              /\ ToInt(dtx) >= 1
              /\ ToInt(dtx) <= DaysInMonth(ToInt(SubSeq(s, 1, 4)), ToInt(mt))
  IN  IF good
      THEN [ok |-> TRUE, date |-> [y |-> ToInt(SubSeq(s, 1, 4)), m |-> ToInt(mt),
                                   d |-> ToInt(dtx)]]
      ELSE [ok |-> FALSE, date |-> START_DATE]

\* ----- THE PROGRAM FOR EACH DAY (Week 1 Baseline) -----
\* day_of_week: 0=Sunday, ..., 6=Saturday.  base_load, increment of a loaded
\* entry and base_mph, increment_mph are in half units (2.5 lbs is 5).
Recovery ==
  [name |-> "Recovery or Light Cardio",
   description |-> "Walk, yoga, gentle swim. No heavy lifting."]

Loaded(n, s, r, b, i) ==
  [name |-> n, sets |-> s, reps |-> r, base_load |-> b, increment |-> i]

PROGRAM ==
  0 :> [title |-> "Sunday (Recovery or Light Cardio)", exercises |-> <<Recovery>>]
  @@
  1 :> [title |-> "Monday", exercises |-> <<
         Loaded("Snatch", 4, 3, 100 * Unit, 5),
         Loaded("Back Squat", 4, 5, 145 * Unit, 5 * Unit),
         Loaded("Ring Push-Ups", 4, 8, 0, 0),
         Loaded("Ring Rows", 4, 8, 0, 0),
         Loaded("Box Jumps", 4, 3, 0, 0),
         [name |-> "Treadmill Intervals", intervals |-> 5,
          base_mph |-> 6 * Unit, increment_mph |-> 1] >>]
  @@
  2 :> [title |-> "Tuesday", exercises |-> <<
         Loaded("Clean & Jerk", 4, 3, 135 * Unit, 5 * Unit),
         Loaded("Bench Press", 4, 5, 105 * Unit, 5 * Unit),
         Loaded("Ring Chin-Ups", 4, 6, 0, 0),
         Loaded("Ring Dips", 4, 6, 0, 0),
         Loaded("Split Squat Jumps", 3, 5, 0, 0),
         [name |-> "Pool Intervals", intervals |-> 6,
          base_rest_sec |-> 30, rest_decrement_sec |-> 5] >>]
  @@
  3 :> [title |-> "Wednesday", exercises |-> <<
         Loaded("Deadlift", 4, 5, 185 * Unit, 10 * Unit),
         Loaded("Overhead Press", 4, 5, 75 * Unit, 5),
         Loaded("Ring Bodyweight Row", 3, 10, 0, 0),
         Loaded("Ring Push-Ups (Feet Elevated)", 3, 10, 0, 0),
         Loaded("Broad Jumps", 4, 2, 0, 0),
         [name |-> "Treadmill Run", duration |-> 10, increment |-> 1] >>]
  @@
  4 :> [title |-> "Thursday", exercises |-> <<
         [name |-> "Extended Mobility", description |-> "20 min stretch + foam roll"],
         Loaded("Snatch (Technique)", 3, 3, 80 * Unit, 2 * Unit),
         Loaded("Pallof Holds (Band)", 3, 10, 0, 0),
         Loaded("DB Walking Lunges", 3, 8, 50 * Unit, 5 * Unit),
         [name |-> "Core Plank Variations", sets |-> 3,
          duration_sec |-> 45, increment_sec |-> 10],
         [name |-> "Zone 2 Cardio", duration |-> 20, increment |-> 2] >>]
  @@
  5 :> [title |-> "Friday", exercises |-> <<
         Loaded("Power Clean", 4, 3, 155 * Unit, 5),
         Loaded("Front Squat", 4, 3, 135 * Unit, 5 * Unit),
         [name |-> "Ring Supported Push-Up Hold (Top Lock)", sets |-> 3,
          duration_sec |-> 15, increment_sec |-> 5],
         Loaded("Single-Leg RDL (DBs)", 3, 8, 40 * Unit, 5 * Unit),
         [name |-> "Sprint Intervals", intervals |-> 6,
          description |-> "~90% effort"] >>]
  @@
  6 :> [title |-> "Saturday", exercises |-> <<Recovery>>]

\* ----- main: the body of `for ex in exercises` -----
Has(ex, f) == f \in DOMAIN ex

\* The load branch.  sets/reps are None when absent; None and 0 are both falsy
\* and neither is printed, so an absent field is carried as 0.
render_loaded(wk, ex) ==
  LET normal_load   == calculate_load(wk, ex.base_load, ex.increment)
      adjusted_load == IF wk \in DELoad_WEEKS
                       THEN deload_adjustment(normal_load)
                       ELSE round_load(normal_load, Unit)
      sets == IF Has(ex, "sets") THEN get_sets_for_week(wk, ex.sets) ELSE 0
      reps == IF Has(ex, "reps") THEN ex.reps ELSE 0
  IN  IF sets # 0 /\ reps # 0
      THEN [branch |-> "loaded_sets_reps", name |-> ex.name, sets |-> sets,
            reps |-> reps, load |-> adjusted_load]
      ELSE IF sets # 0
      THEN [branch |-> "loaded_sets", name |-> ex.name, sets |-> sets,
            load |-> adjusted_load]
      ELSE [branch |-> "loaded_only", name |-> ex.name, load |-> adjusted_load]

\* The intervals branch, selected by the exercise's name.
render_treadmill(wk, ex) ==
  [branch |-> "treadmill", name |-> ex.name,
   intervals |-> get_intervals_for_week(wk, ex.intervals),
   mph |-> get_mph_for_week(wk, ex.base_mph, ex.increment_mph)]

render_sprint(wk, ex) ==
  [branch |-> "sprint", name |-> ex.name,
   intervals |-> get_intervals_for_week(wk, ex.intervals),
   desc |-> IF Has(ex, "description") THEN ex.description ELSE ""]

render_pool(wk, ex) ==
  [branch |-> "pool", name |-> ex.name,
   intervals |-> IF wk \in DELoad_WEEKS
                 THEN get_intervals_for_week(wk, ex.intervals)
                 ELSE ex.intervals,
   rest_sec |-> pool_rest_sec(wk, ex.base_rest_sec, ex.rest_decrement_sec)]

render_no_specific_logic(ex) ==
  [branch |-> "no_specific_logic", name |-> ex.name, intervals |-> ex.intervals]

\* The name test of the pool branch misspelt.
render_intervals_pool_misspelt(wk, ex) ==
  IF Contains("Treadmill Intervals", ex.name) THEN render_treadmill(wk, ex)
  ELSE IF Contains("Sprint Intervals", ex.name) THEN render_sprint(wk, ex)
  ELSE IF Contains("Pool Interval ", ex.name) THEN render_pool(wk, ex)
  ELSE render_no_specific_logic(ex)

render_intervals(wk, ex) ==
  IF Contains("Treadmill Intervals", ex.name) THEN render_treadmill(wk, ex)
  ELSE IF Contains("Sprint Intervals", ex.name) THEN render_sprint(wk, ex)
  ELSE IF Contains("Pool Intervals", ex.name) THEN render_pool(wk, ex)
  ELSE render_no_specific_logic(ex)

\* One iteration of the loop: the line it prints.
RenderLine(wk, ex) ==
  IF Has(ex, "description") /\ Cardinality(DOMAIN ex) = 2
  THEN [branch |-> "descriptive", name |-> ex.name, description |-> ex.description]
  ELSE IF Has(ex, "base_load") /\ Has(ex, "increment")
  THEN render_loaded(wk, ex)
  ELSE IF Has(ex, "intervals")
  THEN render_intervals(wk, ex)
  ELSE IF Has(ex, "duration") /\ Has(ex, "increment")
  THEN [branch |-> "duration", name |-> ex.name,
        minutes |-> get_minutes_for_week(wk, ex.duration, ex.increment)]
  ELSE IF Has(ex, "duration_sec") /\ Has(ex, "increment_sec")
  THEN [branch |-> "hold", name |-> ex.name,
        sets |-> get_sets_for_week(wk, ex.sets),
        seconds |-> hold_total_sec(wk, ex.duration_sec, ex.increment_sec)]
  ELSE IF Has(ex, "sets") /\ Has(ex, "reps")
  THEN [branch |-> "bodyweight", name |-> ex.name,
        sets |-> get_sets_for_week(wk, ex.sets), reps |-> ex.reps]
  ELSE [branch |-> "catch_all", name |-> ex.name]

\* ----- the command line -----
Pad2(n) == Char(Digits, (n \div 10) + 1) \o Char(Digits, (n % 10) + 1)
Pad1(n) == Char(Digits, n + 1)

YearTexts  == {"2024", "2025", "2026", "25"}
MonthTexts == {Pad2(n) : n \in 0..13} \cup {Pad1(n) : n \in 0..9}
DayTexts   == {Pad2(n) : n \in 0..32} \cup {Pad1(n) : n \in 0..9}
SepTexts   == {"-", "/"}
TailTexts  == {"", "T"}

DateArgs ==
  {y \o s \o m \o s \o d \o t :
     y \in YearTexts, s \in SepTexts, m \in MonthTexts, d \in DayTexts, t \in TailTexts}

ProgName == "tracker.py"

\* ----- the process -----
Init ==
  /\ pc = "start"
  /\ argv \in {<<ProgName>>} \cup {<<ProgName, a>> : a \in DateArgs}
  /\ DELoad_WEEKS = Unbound
  /\ current_date = START_DATE
  /\ day_offset = 0
  /\ week = 0
  /\ day_of_week = 0
  /\ exercises = <<>>
  /\ idx = 0
  /\ out = <<>>
  /\ exit_code = NotExited
  /\ loads = <<>>

\* if __name__ == "__main__": DELoad_WEEKS = DELOAD_WEEKS; main()
Entry ==
  /\ pc = "start"
  /\ DELoad_WEEKS' = DELOAD_WEEKS
  /\ pc' = "main"
  /\ UNCHANGED <<argv, current_date, day_offset, week, day_of_week, exercises,
                 idx, out, exit_code, loads>>

Exit(line, code) ==
  /\ out' = Append(out, line)
  /\ exit_code' = code
  /\ pc' = "exited"

\* len(sys.argv) < 2: usage, sys.exit(1)
Usage ==
  /\ pc = "main"
  /\ Len(argv) < 2
  /\ Exit([kind |-> "usage"], 1)
  /\ UNCHANGED <<argv, DELoad_WEEKS, current_date, day_offset, week, day_of_week,
                 exercises, idx, loads>>

\* The parse error reported with sys.exit(0).
ParseError_exit_zero ==
  /\ pc = "main"
  /\ Len(argv) >= 2
  /\ ~strptime(argv[2]).ok
  /\ Exit([kind |-> "invalid_date"], 0)
  /\ UNCHANGED <<argv, DELoad_WEEKS, current_date, day_offset, week, day_of_week,
                 exercises, idx, loads>>

\* strptime raises ValueError: message, sys.exit(1)
ParseError ==
  /\ pc = "main"
  /\ Len(argv) >= 2
  /\ ~strptime(argv[2]).ok
  /\ Exit([kind |-> "invalid_date"], 1)
  /\ UNCHANGED <<argv, DELoad_WEEKS, current_date, day_offset, week, day_of_week,
                 exercises, idx, loads>>

Parsed == Len(argv) >= 2 /\ strptime(argv[2]).ok
OffsetOf(a) == DateDiffDays(strptime(a).date, START_DATE)

\* day_offset < 0: message, return
TooEarly ==
  /\ pc = "main"
  /\ Parsed
  /\ OffsetOf(argv[2]) < 0
  /\ current_date' = strptime(argv[2]).date
  /\ day_offset' = OffsetOf(argv[2])
  /\ Exit([kind |-> "too_early", start |-> START_DATE], 0)
  /\ UNCHANGED <<argv, DELoad_WEEKS, week, day_of_week, exercises, idx, loads>>

\* day_offset > 83: message, return
Completed ==
  /\ pc = "main"
  /\ Parsed
  /\ OffsetOf(argv[2]) > LAST_OFFSET
  /\ current_date' = strptime(argv[2]).date
  /\ day_offset' = OffsetOf(argv[2])
  /\ Exit([kind |-> "completed"], 0)
  /\ UNCHANGED <<argv, DELoad_WEEKS, week, day_of_week, exercises, idx, loads>>

\* week = (day_offset // 7) + 1, without the + 1.
week_of_zero_based(offset) == offset \div 7

\* Which week (1-12) and which day of the week.
week_of(offset) == (offset \div 7) + 1
day_of(offset) == offset % 7

\* The week and the day, the Day Plan, and the four header lines.
Header ==
  /\ pc = "main"
  /\ Parsed
  /\ OffsetOf(argv[2]) >= 0
  /\ OffsetOf(argv[2]) <= LAST_OFFSET
  /\ current_date' = strptime(argv[2]).date
  /\ day_offset' = OffsetOf(argv[2])
  /\ week' = week_of(day_offset')
  /\ day_of_week' = day_of(day_offset')
  /\ exercises' = PROGRAM[day_of_week'].exercises
  /\ out' = out \o << [kind |-> "banner"],
                      [kind |-> "date", date |-> current_date'],
                      [kind |-> "week", week |-> week',
                       title |-> PROGRAM[day_of_week'].title],
                      [kind |-> "rule"] >>
  /\ idx' = 1
  /\ pc' = "loop"
  /\ UNCHANGED <<argv, DELoad_WEEKS, exit_code, loads>>

\* for ex in exercises: one iteration prints one line.
LoopBody ==
  /\ pc = "loop"
  /\ idx <= Len(exercises)
  /\ out' = Append(out, [kind |-> "exercise", line |-> RenderLine(week, exercises[idx])])
  /\ idx' = idx + 1
  /\ UNCHANGED <<pc, argv, DELoad_WEEKS, current_date, day_offset, week, day_of_week,
                 exercises, exit_code, loads>>

\* After the loop: the rule and the closing line; main returns.
Footer ==
  /\ pc = "loop"
  /\ idx > Len(exercises)
  /\ out' = out \o << [kind |-> "rule"], [kind |-> "footer"] >>
  /\ exit_code' = 0
  /\ pc' = "exited"
  /\ UNCHANGED <<argv, DELoad_WEEKS, current_date, day_offset, week, day_of_week,
                 exercises, idx, loads>>

Next ==
  \/ Entry
  \/ Usage
  \/ ParseError
  \/ TooEarly
  \/ Completed
  \/ Header
  \/ LoopBody
  \/ Footer

Spec == Init /\ [][Next]_vars

\* ----- function-level runs: one exercise rendered week after week -----
MaxWeek      == 30
MaxSets      == 7
MaxIntervals == 7
MaxBaseLoad  == 3
MaxRest      == 12
MaxDecrement == 3

ProgramExercises ==
  UNION {{PROGRAM[d].exercises[i] : i \in 1..Len(PROGRAM[d].exercises)} : d \in 0..6}

EngineExercises ==
  ProgramExercises
  \cup {Loaded("Lift", s, 5, b, i) : s \in 0..MaxSets, b \in 0..MaxBaseLoad, i \in {0, 1, 5}}
  \cup {[name |-> "Carry", sets |-> s, base_load |-> 40 * Unit, increment |-> 5] :
          s \in 0..MaxSets}
  \cup {[name |-> "Pull-Ups", sets |-> s, reps |-> 8] : s \in 0..MaxSets}
  \cup {[name |-> "Hollow Hold", sets |-> s, duration_sec |-> 20, increment_sec |-> 5] :
          s \in 0..MaxSets}
  \cup {[name |-> "Treadmill Intervals", intervals |-> n, base_mph |-> 6 * Unit,
         increment_mph |-> 1] : n \in 0..MaxIntervals}
  \cup {[name |-> "Sprint Intervals", intervals |-> n] : n \in 0..MaxIntervals}
  \cup {[name |-> "Evening Pool Intervals", intervals |-> n, base_rest_sec |-> r,
         rest_decrement_sec |-> c] :
          n \in {4, 5, MaxIntervals}, r \in 0..MaxRest, c \in 0..MaxDecrement}
  \cup {[name |-> "Bike Intervals", intervals |-> n] : n \in 0..MaxIntervals}
  \cup {[name |-> "Row", duration |-> 0, increment |-> 3],
        [name |-> "Stretch", sets |-> 2],
        [name |-> "Walk"]}

InitEngine ==
  /\ pc = "engine"
  /\ argv = <<ProgName>>
  /\ DELoad_WEEKS = DELOAD_WEEKS
  /\ current_date = START_DATE
  /\ day_offset = 0
  /\ week = 1
  /\ day_of_week = 0
  /\ exercises \in {<<ex>> : ex \in EngineExercises}
  /\ idx = 1
  /\ out = <<>>
  /\ exit_code = NotExited
  /\ loads = <<>>

\* The loop body applied to the exercise for the next week; for a loaded entry
\* the non-deload load round_load(calculate_load(..)) of that week is logged.
EngineStep ==
  /\ pc = "engine"
  /\ week <= MaxWeek
  /\ out' = Append(out, [kind |-> "exercise", line |-> RenderLine(week, exercises[1])])
  /\ loads' = IF Has(exercises[1], "base_load") /\ Has(exercises[1], "increment")
              THEN Append(loads, round_load(calculate_load(week, exercises[1].base_load,
                                                           exercises[1].increment), Unit))
              ELSE loads
  /\ week' = week + 1
  /\ UNCHANGED <<pc, argv, DELoad_WEEKS, current_date, day_offset, day_of_week,
                 exercises, idx, exit_code>>

NextEngine == EngineStep

SpecEngine == InitEngine /\ [][NextEngine]_vars

\* ----- what the properties are stated with -----
\* The integer nearest to num/den, the even one of two equally near.
NearestEven(num, den) ==
  CHOOSE k \in (num \div den)..((num \div den) + 1) :
    LET e == 2 * (IF num >= k * den THEN num - k * den ELSE k * den - num)
    IN  e < den \/ (e = den /\ k % 2 = 0)

\* A run that printed the header of a workout.
InWorkout == pc = "loop" \/ (pc = "exited" /\ Len(out) > 1)

ExerciseLines == {i \in DOMAIN out : out[i].kind = "exercise"}
NPrinted == Cardinality(ExerciseLines)

\* In a workout run, the i-th exercise of the Day Plan and the line printed for it.
PlanEx(i) == PROGRAM[day_of_week].exercises[i]
PlanLine(i) == out[4 + i].line

\* In a function-level run, the exercise under test and its line for week w.
TestEx == exercises[1]
TestLine(w) == out[w].line

IsLoadedEx(ex) == Has(ex, "base_load") /\ Has(ex, "increment")

DeloadSets(n) == CASE n = 4 -> 3 [] n = 5 -> 4 [] n = 6 -> 4 [] OTHER -> n
DeloadIntervals(n) == IF n >= 5 THEN 4 ELSE n

\* C1: a date whose day_offset is in 0..83 gets week = day_offset // 7 + 1 in
\* 1..12 and day_of_week = day_offset % 7 in 0..6, and the workout printed is
\* that of PROGRAM[day_of_week]; the start date is week 1, day 0, not a deload
\* week, and offset 83 (2025-03-22) is week 12.
C1_WeekAndDay ==
  /\ InWorkout =>
       /\ day_offset \in 0..83
       /\ 7 * (week - 1) + day_of_week = day_offset
       /\ week \in 1..12
       /\ day_of_week \in 0..6
       /\ out[3] = [kind |-> "week", week |-> week, title |-> PROGRAM[day_of_week].title]
       /\ NPrinted <= Len(PROGRAM[day_of_week].exercises)
       /\ \A i \in 1..NPrinted : PlanLine(i).name = PlanEx(i).name
       /\ pc = "exited" => NPrinted = Len(PROGRAM[day_of_week].exercises)
       /\ current_date = START_DATE <=> day_offset = 0
       /\ day_offset = 0 => week = 1 /\ day_of_week = 0 /\ week \notin DELoad_WEEKS
       /\ current_date = [y |-> 2025, m |-> 3, d |-> 22] <=> day_offset = 83
       /\ day_offset = 83 => week = 12
  /\ (pc = "exited" /\ Parsed /\ OffsetOf(argv[2]) \in 0..83) => InWorkout

C1_Witness ==
  /\ pc = "exited"
  /\ argv = <<ProgName, "2025-03-22">>
  /\ day_offset = 83
  /\ week = 12
  /\ out[Len(out)].kind = "footer"

\* C2: each terminal condition prints exactly one message and nothing of the
\* workout; a missing argument and an unparsable date exit non-zero, a date
\* before the start (offset -1 included) and one after offset 83 (offset 84
\* included) exit zero.
C2_TerminalConditions ==
  pc = "exited" =>
    /\ Len(argv) < 2 => out = <<[kind |-> "usage"]>> /\ exit_code # 0
    /\ (Len(argv) >= 2 /\ ~strptime(argv[2]).ok) =>
         out = <<[kind |-> "invalid_date"]>> /\ exit_code # 0
    /\ (Parsed /\ OffsetOf(argv[2]) < 0) =>
         out = <<[kind |-> "too_early", start |-> START_DATE]>> /\ exit_code = 0
    /\ (Parsed /\ OffsetOf(argv[2]) > 83) =>
         out = <<[kind |-> "completed"]>> /\ exit_code = 0
    /\ (Len(argv) >= 2 /\ argv[2] = "2024-12-28") => out[1].kind = "too_early"
    /\ (Len(argv) >= 2 /\ argv[2] = "2025-03-23") => out[1].kind = "completed"
    /\ (Len(argv) >= 2 /\ argv[2] = "2024/12/29") => out[1].kind = "invalid_date"

C2_Witness ==
  /\ pc = "exited"
  /\ argv = <<ProgName, "2025-03-23">>
  /\ day_offset = 84
  /\ out = <<[kind |-> "completed"]>>
  /\ exit_code = 0

C4_DeloadLoadStrictlyLess ==
  InWorkout =>
    \A i \in 1..NPrinted :
      (IsLoadedEx(PlanEx(i)) /\ week \in {6, 10}) =>
        PlanLine(i).load
          < NearestEven(PlanEx(i).base_load + (week - 1) * PlanEx(i).increment, Unit)

\* C9: in weeks 6 and 10 the treadmill pace printed is
\* round(base_mph + (week-1)*increment_mph) and the pool rest printed is the
\* rest of the non-deload formula; only the interval count is reduced.
C9_DeloadKeepsPaceAndRest ==
  (InWorkout /\ week \in {6, 10}) =>
    \A i \in 1..NPrinted :
      LET ex == PlanEx(i)
          ln == PlanLine(i)
      IN  /\ Has(ex, "base_mph") =>
               /\ ln.mph = NearestEven(ex.base_mph + (week - 1) * ex.increment_mph, Unit)
               /\ ln.intervals = DeloadIntervals(ex.intervals)
          /\ Has(ex, "base_rest_sec") =>
               /\ ln.rest_sec = Max(5, ex.base_rest_sec
                                       - ex.rest_decrement_sec * ((week - 1) \div 2))
               /\ ln.intervals = DeloadIntervals(ex.intervals)

C9_Witness ==
  /\ pc = "exited"
  /\ week = 10
  /\ day_of_week = 1
  /\ PlanLine(6) = [branch |-> "treadmill", name |-> "Treadmill Intervals",
                    intervals |-> 4, mph |-> 10]

\* C10: in a workout every exercise of the Day Plan is printed by a branch of
\* its own kind, never by the name-only catch-all nor by the interval fallback,
\* one line per exercise.
C10_NoFallbackBranch ==
  InWorkout =>
    /\ \A i \in ExerciseLines : out[i].line.branch \notin {"catch_all", "no_specific_logic"}
    /\ NPrinted = idx - 1
    /\ Len(out) = 4 + NPrinted + (IF pc = "exited" THEN 2 ELSE 0)
    /\ pc = "exited" => NPrinted = Len(PROGRAM[day_of_week].exercises)

C10_Witness ==
  /\ pc = "exited"
  /\ week = 12
  /\ day_of_week = 5
  /\ NPrinted = 5
  /\ {out[i].line.branch : i \in ExerciseLines} = {"loaded_sets_reps", "hold", "sprint"}

\* C5: for a loaded exercise the non-deload load
\* round_load(calculate_load(week, base_load, increment)) never decreases from
\* one week to a later one, the half-pound values rounded to even included.
C5_LoadNonDecreasing ==
  pc = "engine" =>
    /\ IsLoadedEx(TestEx) => Len(loads) = week - 1
    /\ \A i \in DOMAIN loads : \A j \in DOMAIN loads : i <= j => loads[i] <= loads[j]
    /\ \A w \in DOMAIN loads :
         loads[w] = NearestEven(TestEx.base_load + (w - 1) * TestEx.increment, Unit)

C5_Witness ==
  /\ pc = "engine"
  /\ TestEx = Loaded("Snatch", 4, 3, 100 * Unit, 5)
  /\ Len(loads) >= 12
  /\ loads[1] = 100 /\ loads[2] = 102 /\ loads[3] = 105 /\ loads[4] = 108
  /\ loads[12] = 128

\* C6: on a deload week the set count printed is 3 for a base of 4, 4 for a
\* base of 5 or 6 and the base otherwise, on any other week the base; so for
\* the loaded, the timed-hold and the bodyweight line, whatever the load.
C6_SetCountMapping ==
  pc = "engine" =>
    \A w \in DOMAIN out :
      LET ln == TestLine(w)
          expected == IF w \in {6, 10} THEN DeloadSets(TestEx.sets) ELSE TestEx.sets
      IN  /\ (IsLoadedEx(TestEx) /\ Has(TestEx, "sets") /\ TestEx.sets # 0) =>
                /\ ln.branch \in {"loaded_sets_reps", "loaded_sets"}
                /\ ln.sets = expected
          /\ (~IsLoadedEx(TestEx) /\ Has(TestEx, "duration_sec")) =>
                ln.branch = "hold" /\ ln.sets = expected
          /\ (~IsLoadedEx(TestEx) /\ ~Has(TestEx, "duration_sec")
                /\ Has(TestEx, "sets") /\ Has(TestEx, "reps")) =>
                ln.branch = "bodyweight" /\ ln.sets = expected
          /\ Has(ln, "sets") => ln.sets = expected

C6_Witness ==
  /\ pc = "engine"
  /\ TestEx = [name |-> "Pull-Ups", sets |-> 6, reps |-> 8]
  /\ Len(out) >= 7
  /\ TestLine(5).sets = 6
  /\ TestLine(6) = [branch |-> "bodyweight", name |-> "Pull-Ups", sets |-> 4, reps |-> 8]
  /\ TestLine(7).sets = 6

\* C7: a treadmill, sprint or pool interval line carries 4 intervals on a
\* deload week when the base count is 5 or more, and the base count otherwise.
C7_IntervalCountMapping ==
  pc = "engine" =>
    \A w \in DOMAIN out :
      LET ln == TestLine(w)
      IN  /\ ln.branch \in {"treadmill", "sprint", "pool"} =>
               ln.intervals = IF w \in {6, 10} /\ TestEx.intervals >= 5
                              THEN 4 ELSE TestEx.intervals
          /\ (Has(TestEx, "intervals")
                /\ \E n \in {"Treadmill Intervals", "Sprint Intervals", "Pool Intervals"} :
                     Contains(n, TestEx.name)) =>
               ln.branch \in {"treadmill", "sprint", "pool"}

C7_Witness ==
  /\ pc = "engine"
  /\ TestEx.name = "Sprint Intervals"
  /\ TestEx.intervals = 5
  /\ Len(out) >= 10
  /\ TestLine(9).intervals = 5
  /\ TestLine(10).intervals = 4

\* C8: the pool rest printed is never below 5, whatever the week, and is
\* base_rest - decrement * floor((week-1)/2) whenever that is at least 5.
C8_RestFloor ==
  pc = "engine" =>
    \A w \in DOMAIN out :
      TestLine(w).branch = "pool" =>
        LET unclamped == TestEx.base_rest_sec - TestEx.rest_decrement_sec * ((w - 1) \div 2)
        IN  /\ TestLine(w).rest_sec >= 5
            /\ unclamped >= 5 => TestLine(w).rest_sec = unclamped
            /\ unclamped < 5 => TestLine(w).rest_sec = 5

C8_Witness ==
  /\ pc = "engine"
  /\ TestEx.name = "Pool Intervals"
  /\ TestEx.base_rest_sec = 30
  /\ Len(out) >= 13
  /\ TestLine(11).rest_sec = 5
  /\ TestLine(13).rest_sec = 5
  /\ TestEx.base_rest_sec - TestEx.rest_decrement_sec * ((13 - 1) \div 2) = 0

====
